---------------------------- MODULE Spec2Model ----------------------------
(***************************************************************************)
(* A model of packages/transformer/plot.py: the ingestion loop over the    *)
(* *.usrtime and *.strace logs of the working directory (lines 83-158) and *)
(* the per-source, per-variant comparison that follows it (lines 164-250). *)
(*                                                                         *)
(* Text is modelled as sequences of one-character strings, so that the     *)
(* regular expressions, str.split, float() and timeToSeconds are computed  *)
(* on the characters as the code computes them.  Numbers are fixed-point:  *)
(* a float is held as its value in tenths (90.5 is 905).  A line is held   *)
(* without its line terminator: "$" matches before it and "." does not     *)
(* match it.                                                               *)
(***************************************************************************)
EXTENDS Integers, Sequences, FiniteSets, TLC

(***************************************************************************)
(* Character-sequence helpers (str.startswith, str.endswith, in,           *)
(* str.find, str.count, str.split).                                        *)
(***************************************************************************)
IsPrefixAt(p, s, i) ==
  /\ i + Len(p) - 1 <= Len(s)
  /\ \A k \in 1..Len(p) : s[i + k - 1] = p[k]

StartsWith(s, p) == IsPrefixAt(p, s, 1)

EndsWith(s, p) == Len(p) <= Len(s) /\ IsPrefixAt(p, s, Len(s) - Len(p) + 1)

Contains(s, p) == \E i \in 1..(Len(s) + 1) : IsPrefixAt(p, s, i)

Find(s, c) ==
  IF \E i \in 1..Len(s) : s[i] = c
  THEN CHOOSE i \in 1..Len(s) : s[i] = c /\ \A j \in 1..(i - 1) : s[j] # c
  ELSE 0

Count(s, c) == Cardinality({i \in 1..Len(s) : s[i] = c})

RECURSIVE Split(_, _)
Split(s, c) ==
  LET i == Find(s, c)
  IN  IF i = 0 THEN <<s>>
      ELSE <<SubSeq(s, 1, i - 1)>> \o Split(SubSeq(s, i + 1, Len(s)), c)

(***************************************************************************)
(* The literals of the patterns and tables of plot.py.                     *)
(***************************************************************************)
L_CommandBeingTimed == <<"C","o","m","m","a","n","d"," ","b","e","i","n","g"," ","t","i","m","e","d">>
L_PercentTime == <<"%"," ","t","i","m","e">>
L_UserTime == <<"U","s","e","r"," ","t","i","m","e"," ","(","s","e","c","o","n","d","s",")">>
L_SystemTime == <<"S","y","s","t","e","m"," ","t","i","m","e"," ","(","s","e","c","o","n","d","s",")">>
L_Elapsed == <<"E","l","a","p","s","e","d"," ","(","w","a","l","l"," ","c","l","o","c","k",")"," ","t","i","m","e"," ","(","h",":","m","m",":","s","s"," ","o","r"," ","m",":","s","s",")">>
L_MaxRss == <<"M","a","x","i","m","u","m"," ","r","e","s","i","d","e","n","t"," ","s","e","t"," ","s","i","z","e"," ","(","k","b","y","t","e","s",")">>
L_ColonSpace == <<":"," ">>
L_DotBim == <<".","b","i","m">>
L_usrtime == <<"u","s","r","t","i","m","e">>
L_strace == <<"s","t","r","a","c","e">>
L_Tab == <<"\t">>
L_TwoSpaces == <<" "," ">>
P_Elapsed == <<"E","l","a","p","s","e","d">>
P_SystemTime == <<"S","y","s","t","e","m"," ","t","i","m","e">>
P_UserTime == <<"U","s","e","r"," ","t","i","m","e">>
P_MaxRss == <<"M","a","x","i","m","u","m"," ","r","e","s","i","d","e","n","t"," ","s","e","t"," ","s","i","z","e">>
K_Juergen == <<"J","u","e","r","g","e","n",".","H","o","f","e","r",".","B","a","d",".","N","o","r","m","a","l","s",".","b","i","m">>
K_BadAspect == <<"b","a","d","-","a","s","p","e","c","t","-","o","l","d",".","b","i","m">>
K_Shell == <<"s","h","e","l","l","-","n","o","o","b","s","t","r","u","c","t","i","o","n",".","b","i","m">>
V_oldtform == <<"o","l","d","t","f","o","r","m">>
V_selectfrom == <<"s","e","l","e","c","t","f","r","o","m">>

\* Python's None; no character sequence equals it.
None == <<"None">>

\* file_paths (its keys; the paths are only handed to os.stat and sqlite3).
file_paths == {K_Juergen, K_BadAspect, K_Shell}

\* cool_versions (its keys; the values are tick labels).
cool_versions == {V_oldtform, V_selectfrom}

\* syscalls: every entry of the table is commented out in the source.
syscalls == {}

\* The metric list of the maxs comprehension (line 191), in its order;
\* *syscalls.keys() adds nothing to it.
MetricKeys == <<"max_rss", "user_time", "system_time", "wall_clock_time">>

(***************************************************************************)
(* file_patt: ^(version [^_]+?)(-(commit [a-z0-9]{7}))?_(src .+\.bim)\.    *)
(* (type usrtime|strace)$.  The version cannot hold an underscore, so the  *)
(* "_" of the pattern is the first underscore of the name.  The version is *)
(* lazy and the commit group is tried before it is skipped, so a prefix    *)
(* that ends in "-" and 7 characters of [a-z0-9], with at least one        *)
(* character before, is split there.                                       *)
(***************************************************************************)
LowerAlnum ==
  {"a","b","c","d","e","f","g","h","i","j","k","l","m","n","o","p","q","r",
   "s","t","u","v","w","x","y","z","0","1","2","3","4","5","6","7","8","9"}

NoMatch == [matched |-> FALSE]

\* file_patt with a version that takes the whole prefix: the revision is never split off.
file_patt_NoRevision(name) ==
  LET u    == Find(name, "_")
      P    == SubSeq(name, 1, u - 1)
      R    == SubSeq(name, u + 1, Len(name))
      type == IF EndsWith(R, <<".">> \o L_usrtime) THEN L_usrtime
              ELSE IF EndsWith(R, <<".">> \o L_strace) THEN L_strace
              ELSE None
      src  == SubSeq(R, 1, Len(R) - Len(type) - 1)
  IN  IF u <= 1 \/ type = None THEN NoMatch
      ELSE IF ~(EndsWith(src, L_DotBim) /\ Len(src) >= 5) THEN NoMatch
      ELSE [matched |-> TRUE, version |-> P, commit |-> None,
            src |-> src, type |-> type]

file_patt(name) ==
  LET u    == Find(name, "_")
      P    == SubSeq(name, 1, u - 1)
      R    == SubSeq(name, u + 1, Len(name))
      type == IF EndsWith(R, <<".">> \o L_usrtime) THEN L_usrtime
              ELSE IF EndsWith(R, <<".">> \o L_strace) THEN L_strace
              ELSE None
      src  == SubSeq(R, 1, Len(R) - Len(type) - 1)
      n    == Len(P)
      hasCommit == /\ n >= 9
                   /\ P[n - 7] = "-"
                   /\ \A i \in (n - 6)..n : P[i] \in LowerAlnum
  IN  IF u <= 1 \/ type = None THEN NoMatch
      ELSE IF ~(EndsWith(src, L_DotBim) /\ Len(src) >= 5) THEN NoMatch
      ELSE [matched |-> TRUE,
            version |-> IF hasCommit THEN SubSeq(P, 1, n - 8) ELSE P,
            commit  |-> IF hasCommit THEN SubSeq(P, n - 6, n) ELSE None,
            src     |-> src,
            type    |-> type]

(***************************************************************************)
(* start_patt (line 114): for usrtime, ^(\t|  )Command being timed; for    *)
(* any other type, "% time" anywhere in the line (re.search).              *)
(***************************************************************************)
start_patt(file_type, line) ==
  IF file_type = L_usrtime
  THEN \/ StartsWith(line, L_Tab \o L_CommandBeingTimed)
       \/ StartsWith(line, L_TwoSpaces \o L_CommandBeingTimed)
  ELSE Contains(line, L_PercentTime)

(***************************************************************************)
(* usrtime_patt: a tab or two spaces, one of the four statistic names of   *)
(* lines 20-22, ": ", and the rest of the line as the value.               *)
(***************************************************************************)
StatNames == {L_UserTime, L_SystemTime, L_Elapsed, L_MaxRss}

usrtime_patt(line) ==
  LET lead == IF StartsWith(line, L_Tab) THEN 1
              ELSE IF StartsWith(line, L_TwoSpaces) THEN 2 ELSE 0
      hit  == {s \in StatNames : IsPrefixAt(s \o L_ColonSpace, line, lead + 1)}
  IN  IF lead = 0 \/ hit = {} THEN NoMatch
      ELSE LET s == CHOOSE x \in hit : TRUE
           IN  [matched   |-> TRUE,
                stat_name |-> s,
                value     |-> SubSeq(line, lead + Len(s) + 3, Len(line))]

(***************************************************************************)
(* strace_patt: six groups of non-blanks, each after a lazy run of blanks, *)
(* anchored at both ends.  A lazy run is empty whenever the rest can still *)
(* match, so the words of the line fill the last groups: the first word    *)
(* goes to timep when the line starts with a non-blank, and word i of n    *)
(* goes to group 6 - n + i otherwise; blanks at the end of the line are    *)
(* followed by one empty word.  More than six words do not match.          *)
(***************************************************************************)
Blank == {" ", "\t"}

RECURSIVE Words(_)
Words(s) ==
  IF s = <<>> THEN <<>>
  ELSE IF s[1] \in Blank THEN Words(Tail(s))
  ELSE LET stop == IF \E i \in 1..Len(s) : s[i] \in Blank
                   THEN (CHOOSE i \in 1..Len(s) :
                           s[i] \in Blank /\ \A j \in 1..(i - 1) : s[j] \notin Blank) - 1
                   ELSE Len(s)
       IN  <<SubSeq(s, 1, stop)>> \o Words(SubSeq(s, stop + 1, Len(s)))

strace_patt(line) ==
  LET lead  == line # <<>> /\ line[1] \in Blank
      trail == line # <<>> /\ line[Len(line)] \in Blank
      w     == Words(line) \o (IF trail THEN << <<>> >> ELSE <<>>)
      n     == Len(w)
      at(g) == IF g = 1 /\ ~lead /\ n >= 1 THEN w[1]
               ELSE IF g - (6 - n) >= 1 /\ (lead \/ g - (6 - n) >= 2)
                    THEN w[g - (6 - n)]
               ELSE <<>>
  IN  IF n > 6 THEN NoMatch
      ELSE [matched |-> TRUE, timep |-> at(1), seconds |-> at(2),
            usecs_call |-> at(3), calls |-> at(4), errors |-> at(5),
            syscall |-> at(6)]

(***************************************************************************)
(* float(text) for the decimal literals of the logs: an optional sign,     *)
(* digits, and optionally a point and digits, with at least one digit.     *)
(* The result is the value in tenths; a text that is no number raises      *)
(* ValueError.  Only the first digit after the point is kept.              *)
(***************************************************************************)
DigitChars == <<"0","1","2","3","4","5","6","7","8","9">>

IsDigit(c) == \E i \in 1..Len(DigitChars) : DigitChars[i] = c

DigitVal(c) == (CHOOSE i \in 1..Len(DigitChars) : DigitChars[i] = c) - 1

RECURSIVE DigitsValue(_)
DigitsValue(ds) ==
  IF ds = <<>> THEN 0
  ELSE 10 * DigitsValue(SubSeq(ds, 1, Len(ds) - 1)) + DigitVal(ds[Len(ds)])

Raised(kind) == [ok |-> FALSE, error |-> kind, val |-> 0]

Returned(v) == [ok |-> TRUE, error |-> "", val |-> v]

float(text) ==
  LET signed == text # <<>> /\ text[1] \in {"-", "+"}
      body   == IF signed THEN Tail(text) ELSE text
      dot    == Find(body, ".")
      ip     == IF dot = 0 THEN body ELSE SubSeq(body, 1, dot - 1)
      fp     == IF dot = 0 THEN <<>> ELSE SubSeq(body, dot + 1, Len(body))
      wellFormed == /\ \A i \in 1..Len(ip) : IsDigit(ip[i])
                    /\ \A i \in 1..Len(fp) : IsDigit(fp[i])
                    /\ Len(ip) + Len(fp) >= 1
      mag    == 10 * DigitsValue(ip) + (IF fp = <<>> THEN 0 ELSE DigitVal(fp[1]))
  IN  IF ~wellFormed THEN Raised("ValueError")
      ELSE Returned(IF signed /\ text[1] = "-" THEN 0 - mag ELSE mag)

(***************************************************************************)
(* timeToSeconds (lines 64-67).  src.count(':') is an int and '2' a str:   *)
(* in Python the two are never equal.  The int 0 that stands for the hours *)
(* is held as the text "0": float gives 0.0 for both.  Unpacking into      *)
(* h, m, s raises ValueError unless there are exactly three parts.         *)
(***************************************************************************)
IntEqualsStr(n, s) == FALSE

\* timeToSeconds reading the one-colon form as h:mm (the 0 appended, not prepended).
timeToSeconds_HoursFirst(src) ==
  LET parts == IF IntEqualsStr(Count(src, ":"), "2")
               THEN Split(src, ":")
               ELSE Split(src, ":") \o << <<"0">> >>
  IN  IF Len(parts) # 3 THEN Raised("ValueError")
      ELSE LET h == float(parts[1])
               m == float(parts[2])
               s == float(parts[3])
           IN  IF ~(h.ok /\ m.ok /\ s.ok) THEN Raised("ValueError")
               ELSE Returned(3600 * h.val + 60 * m.val + s.val)

timeToSeconds(src) ==
  LET parts == IF IntEqualsStr(Count(src, ":"), "2")
               THEN Split(src, ":")
               ELSE << <<"0">> >> \o Split(src, ":")
  IN  IF Len(parts) # 3 THEN Raised("ValueError")
      ELSE LET h == float(parts[1])
               m == float(parts[2])
               s == float(parts[3])
           IN  IF ~(h.ok /\ m.ok /\ s.ok) THEN Raised("ValueError")
               ELSE Returned(3600 * h.val + 60 * m.val + s.val)

(***************************************************************************)
(* Dictionaries.  A dict is a function; d[k] with k outside DOMAIN d is    *)
(* Python's KeyError and is guarded wherever the code can raise it.        *)
(***************************************************************************)
EmptyDict == [k \in {} |-> None]

Put(d, k, v) == [x \in DOMAIN d \cup {k} |-> IF x = k THEN v ELSE d[x]]

(***************************************************************************)
(* Lines 99-112: the SourceDataset of source_file and the Run of version   *)
(* are created when they are missing; an existing Run is kept as it is.    *)
(***************************************************************************)
NewSource(source_file) ==
  [transforms |-> EmptyDict, size_gb |-> "st_size", path |-> source_file]

\* NewRun taking no revision from the file.
NewRun_NoRevision(version, commit) ==
  Put(Put(EmptyDict, "version", version), "commit", None)

NewRun(version, commit) ==
  Put(Put(EmptyDict, "version", version), "commit", commit)

\* LookupOrCreate storing a new Run for every file, whether or not the key has one.
LookupOrCreate_Replace(d, source_file, version, commit) ==
  LET d1 == IF source_file \notin DOMAIN d
            THEN Put(d, source_file, NewSource(source_file))
            ELSE d
  IN  [d1 EXCEPT ![source_file].transforms = Put(@, version, NewRun(version, commit))]

LookupOrCreate(d, source_file, version, commit) ==
  LET d1 == IF source_file \notin DOMAIN d
            THEN Put(d, source_file, NewSource(source_file))
            ELSE d
      tf == IF version \in DOMAIN d1[source_file].transforms
            THEN d1[source_file].transforms[version]
            ELSE NewRun(version, commit)
  IN  [d1 EXCEPT ![source_file].transforms = Put(@, version, tf)]

(***************************************************************************)
(* Lines 117-153: one line of the open file.  tform_data is the Run of the *)
(* file (the dict object stored in data, so a write is seen there at       *)
(* once).  The result is the Run, the started flag and the exception, if   *)
(* one is raised.                                                          *)
(***************************************************************************)
Scanned(tf, started) == [ok |-> TRUE, error |-> "", tf |-> tf, started |-> started]

ScanRaised(tf, kind) == [ok |-> FALSE, error |-> kind, tf |-> tf, started |-> TRUE]

\* StoreIf binding tform_data to a new dict of the one field instead of storing into it.
StoreIf_Rebinds(prev, cond, key, conv) ==
  IF ~prev.ok \/ ~cond THEN prev
  ELSE IF conv.ok THEN Scanned(Put(EmptyDict, key, conv.val), TRUE)
  ELSE ScanRaised(prev.tf, conv.error)

\* StoreIf keeping the value a field already has.
StoreIf_KeepsFirst(prev, cond, key, conv) ==
  IF ~prev.ok \/ ~cond THEN prev
  ELSE IF ~conv.ok THEN ScanRaised(prev.tf, conv.error)
  ELSE IF key \in DOMAIN prev.tf THEN prev
  ELSE Scanned(Put(prev.tf, key, conv.val), TRUE)

\* One "if stat_name.startswith(prefix): tform_data[key] = conv" of lines 132-142.
StoreIf(prev, cond, key, conv) ==
  IF ~prev.ok \/ ~cond THEN prev
  ELSE IF conv.ok THEN Scanned(Put(prev.tf, key, conv.val), TRUE)
  ELSE ScanRaised(prev.tf, conv.error)

ExtractUsrtime(tf, line) ==
  LET m == usrtime_patt(line)
  IN  IF ~m.matched THEN Scanned(tf, TRUE)
      ELSE LET s0 == Scanned(tf, TRUE)
               s1 == StoreIf(s0, StartsWith(m.stat_name, P_Elapsed),
                             "wall_clock_time", timeToSeconds(m.value))
               s2 == StoreIf(s1, StartsWith(m.stat_name, P_SystemTime),
                             "system_time", float(m.value))
               s3 == StoreIf(s2, StartsWith(m.stat_name, P_UserTime),
                             "user_time", float(m.value))
               s4 == StoreIf(s3, StartsWith(m.stat_name, P_MaxRss),
                             "max_rss", float(m.value))
           IN  s4

ExtractStrace(tf, line) ==
  LET m == strace_patt(line)
  IN  IF ~m.matched THEN Scanned(tf, TRUE)
      ELSE LET hit == {name \in syscalls : m.syscall = name}
           IN  IF hit = {} THEN Scanned(tf, TRUE)
               ELSE StoreIf(Scanned(tf, TRUE), TRUE,
                            CHOOSE name \in hit : TRUE, float(m.seconds))

\* ScanLine without the continue of line 121: every line goes on to the extraction.
ScanLine_NoSeek(tf, file_type, started, line) ==
  LET r == IF file_type = L_usrtime THEN ExtractUsrtime(tf, line)
           ELSE IF file_type = L_strace THEN ExtractStrace(tf, line)
           ELSE Scanned(tf, TRUE)
  IN  [r EXCEPT !.started = started \/ start_patt(file_type, line)]

ScanLine(tf, file_type, started, line) ==
  IF ~started THEN Scanned(tf, start_patt(file_type, line))
  ELSE IF file_type = L_usrtime THEN ExtractUsrtime(tf, line)
  ELSE IF file_type = L_strace THEN ExtractStrace(tf, line)
  ELSE Scanned(tf, TRUE)

(***************************************************************************)
(* The log files the directory may hold.  The names and the lines are      *)
(* character sequences; the resolver and the scanners see nothing else.    *)
(***************************************************************************)
T_newtform == <<"n","e","w","t","f","o","r","m">>
T_abc1234 == <<"a","b","c","1","2","3","4">>
T_OtherBim == <<"o","t","h","e","r",".","b","i","m">>
T_WeirdFile == <<"w","e","i","r","d",".","f","i","l","e",".","u","s","r","t","i","m","e">>
T_node == <<"n","o","d","e"," ","t","r","a","n","s","f","o","r","m",".","j","s">>
T_PageSize == <<"P","a","g","e"," ","s","i","z","e"," ","(","b","y","t","e","s",")",":"," ","4","0","9","6">>
T_StraceHeader == <<"%"," ","t","i","m","e"," "," "," "," "," ","s","e","c","o","n","d","s"," "," ","u","s","e","c","s","/","c","a","l","l"," "," "," "," "," ","c","a","l","l","s"," "," "," "," ","e","r","r","o","r","s"," ","s","y","s","c","a","l","l">>
T_StraceRow5 == <<" ","6","1",".","5"," "," "," "," ","0",".","8"," "," "," "," "," ","4"," "," "," "," "," ","2"," "," "," "," "," "," "," ","p","w","r","i","t","e","6","4">>
T_StraceRow6 == <<" ","3","8",".","5"," "," "," "," ","0",".","5"," "," "," "," "," ","5"," "," "," "," "," ","1"," "," "," "," "," ","1"," ","o","p","e","n","a","t">>
T_DataBim == <<"d","a","t","a",".","b","i","m">>
T_abc12345 == <<"a","b","c","1","2","3","4","5">>
X_0_05_0 == <<"0",":","0","5",".","0">>
X_1_30_5 == <<"1",":","3","0",".","5">>
X_0_07_0 == <<"0",":","0","7",".","0">>
X_0_00 == <<"0",":","0","0">>
X_1_02_03_0 == <<"1",":","0","2",":","0","3",".","0">>
X_9_0 == <<"9",".","0">>
X_3_0 == <<"3",".","0">>
X_1_0 == <<"1",".","0">>
X_0_5 == <<"0",".","5">>
X_0 == <<"0">>
X_100 == <<"1","0","0">>
X_250 == <<"2","5","0">>
X_abc == <<"a","b","c">>

FileNameOf(version, rev, src, type) ==
  version \o (IF rev = None THEN <<>> ELSE <<"-">> \o rev) \o <<"_">> \o src
          \o <<".">> \o type

N_old       == FileNameOf(V_oldtform, None, K_Shell, L_usrtime)
N_oldRev    == FileNameOf(V_oldtform, T_abc1234, K_Shell, L_usrtime)
N_sel       == FileNameOf(V_selectfrom, T_abc1234, K_Shell, L_usrtime)
N_selBad    == FileNameOf(V_selectfrom, None, K_BadAspect, L_usrtime)
N_oldStrace == FileNameOf(V_oldtform, T_abc1234, K_Shell, L_strace)
N_new       == FileNameOf(T_newtform, None, K_Shell, L_usrtime)
N_newOther  == FileNameOf(T_newtform, None, T_OtherBim, L_strace)
N_data      == FileNameOf(V_oldtform, T_abc1234, T_DataBim, L_usrtime)

Marker(lead) == lead \o L_CommandBeingTimed \o L_ColonSpace \o T_node

Stat(lead, name, value) == lead \o name \o L_ColonSpace \o value

Junk == L_Tab \o T_PageSize

\* A complete report; user time above the elapsed time (several threads).
C_A == <<Marker(L_Tab), Stat(L_Tab, L_UserTime, X_9_0), Stat(L_Tab, L_SystemTime, X_1_0),
         Stat(L_Tab, L_Elapsed, X_0_05_0), Stat(L_Tab, L_MaxRss, X_100)>>
\* A complete report, indented by two spaces; no user time and no memory.
C_B == <<Marker(L_TwoSpaces), Stat(L_TwoSpaces, L_UserTime, X_0),
         Stat(L_TwoSpaces, L_SystemTime, X_0_5),
         Stat(L_TwoSpaces, L_Elapsed, X_1_30_5), Stat(L_TwoSpaces, L_MaxRss, X_0)>>
\* A complete report of zeros.
C_Z == <<Marker(L_Tab), Stat(L_Tab, L_UserTime, X_0), Stat(L_Tab, L_SystemTime, X_0),
         Stat(L_Tab, L_Elapsed, X_0_00), Stat(L_Tab, L_MaxRss, X_0)>>
\* Only the elapsed time.
C_W == <<Marker(L_Tab), Stat(L_Tab, L_Elapsed, X_0_05_0)>>
\* No elapsed time.
C_R == <<Marker(L_Tab), Stat(L_Tab, L_UserTime, X_3_0), Stat(L_Tab, L_MaxRss, X_250)>>
\* The start marker and nothing else.
C_M == <<Marker(L_Tab)>>
\* A statistic and no start marker.
C_N == <<Stat(L_Tab, L_Elapsed, X_0_05_0)>>
\* An empty file.
C_E == <<>>
\* An elapsed time of the form h:mm:ss.
C_T == <<Marker(L_Tab), Stat(L_Tab, L_Elapsed, X_1_02_03_0), Stat(L_Tab, L_UserTime, X_1_0)>>
\* A user time that is no number.
C_F == <<Marker(L_Tab), Stat(L_Tab, L_UserTime, X_abc), Stat(L_Tab, L_MaxRss, X_100)>>
\* A statistic before the start marker, and the elapsed time twice after it.
C_P == <<Stat(L_Tab, L_Elapsed, X_0_07_0), Marker(L_Tab), Junk,
         Stat(L_Tab, L_Elapsed, X_0_05_0), Stat(L_Tab, L_Elapsed, X_1_30_5)>>
\* An elapsed time without colon, and one with three.
C_0 == <<Marker(L_Tab), Stat(L_Tab, L_UserTime, X_3_0), Stat(L_Tab, L_Elapsed, X_9_0),
         Stat(L_Tab, L_MaxRss, X_100)>>
C_3 == <<Marker(L_Tab), Stat(L_Tab, L_Elapsed, X_0_05_0 \o <<":">> \o X_0_05_0),
         Stat(L_Tab, L_MaxRss, X_100)>>
\* A system time and a memory size that are no numbers.
C_S == <<Marker(L_Tab), Stat(L_Tab, L_SystemTime, X_abc), Stat(L_Tab, L_UserTime, X_3_0)>>
C_K == <<Marker(L_Tab), Stat(L_Tab, L_Elapsed, X_0_05_0), Stat(L_Tab, L_MaxRss, X_abc),
         Stat(L_Tab, L_UserTime, X_3_0)>>
\* A syscall summary, and one without its header.
S_H == <<Junk, T_StraceHeader, T_StraceRow5, T_StraceRow6>>
S_N == <<T_StraceRow5>>

File(name, lines) == [name |-> name, lines |-> lines]

Files ==
  << File(N_old, C_A), File(N_old, C_B), File(N_old, C_Z), File(N_old, C_W),
     File(N_old, C_R), File(N_old, C_M), File(N_old, C_N), File(N_old, C_E),
     File(N_old, C_T), File(N_old, C_F), File(N_old, C_P),
     File(N_oldRev, C_A), File(N_oldRev, C_R), File(N_oldRev, C_W),
     File(N_sel, C_A), File(N_sel, C_B), File(N_sel, C_Z), File(N_sel, C_W),
     File(N_sel, C_M),
     File(N_selBad, C_A), File(N_selBad, C_N),
     File(N_oldStrace, S_H), File(N_oldStrace, S_N),
     File(N_new, C_A), File(T_WeirdFile, C_A), File(N_newOther, S_H),
     File(N_data, C_A),
     File(N_old, C_0), File(N_old, C_3), File(N_old, C_S), File(N_old, C_K) >>

FileIds == 1..Len(Files)

\* The most files a directory holds.
MaxFiles == 2

(***************************************************************************)
(* Line 83: the files of glob("*.usrtime") and then those of               *)
(* glob("*.strace"), each glob in the order the file system lists them.    *)
(* The names of a directory are distinct.                                  *)
(***************************************************************************)
Globbed(id, type) == EndsWith(Files[id].name, <<".">> \o type)

GlobOrder(seq) ==
  /\ \A i, j \in 1..Len(seq) : i # j => Files[seq[i]].name # Files[seq[j]].name
  /\ \A i \in 1..Len(seq) : Globbed(seq[i], L_usrtime) \/ Globbed(seq[i], L_strace)
  /\ \A i, j \in 1..Len(seq) :
       i < j => ~(Globbed(seq[i], L_strace) /\ Globbed(seq[j], L_usrtime))

Directories ==
  UNION {{seq \in [1..n -> FileIds] : GlobOrder(seq)} : n \in 0..MaxFiles}

(***************************************************************************)
(* Lines 175-178: the allow-listed runs of a source, sorted by version.    *)
(* Python orders str by code point.                                        *)
(***************************************************************************)
CodePointOrder ==
  <<"-","0","1","2","3","4","5","6","7","8","9",
    "a","b","c","d","e","f","g","h","i","j","k","l","m","n","o","p","q","r",
    "s","t","u","v","w","x","y","z">>

CodePoint(c) == CHOOSE i \in 1..Len(CodePointOrder) : CodePointOrder[i] = c

StrLess(a, b) ==
  \E i \in 1..(Len(b)) :
    /\ \A k \in 1..(i - 1) : k <= Len(a) /\ a[k] = b[k]
    /\ (i > Len(a) \/ CodePoint(a[i]) < CodePoint(b[i]))

RECURSIVE SortedSeq(_)
SortedSeq(S) ==
  IF S = {} THEN <<>>
  ELSE LET least == CHOOSE x \in S : \A y \in S \ {x} : StrLess(x, y)
       IN  <<least>> \o SortedSeq(S \ {least})

\* versions (line 177): the keys, in order; the runs are src_runs.transforms.
versions(src_runs) ==
  SortedSeq({k \in DOMAIN src_runs.transforms : k \in cool_versions})

(***************************************************************************)
(* Lines 188-247: one round of the per-variant loop.  maxs is computed     *)
(* first and raises KeyError when a run lacks a key of the list; then the  *)
(* bars are built in order, each height a float division, which raises     *)
(* ZeroDivisionError on a zero divisor.  A height is held as the pair      *)
(* (value, max).                                                           *)
(***************************************************************************)
Max(S) == CHOOSE x \in S : \A y \in S : y <= x

HasAllKeys(src_runs, vs) ==
  \A i \in 1..Len(vs) : \A n \in 1..Len(MetricKeys) :
    MetricKeys[n] \in DOMAIN src_runs.transforms[vs[i]]

\* maxs taking the least value of the runs instead of the greatest.
maxs_Least(src_runs, vs, key) ==
  LET S == {src_runs.transforms[vs[i]][key] : i \in 1..Len(vs)}
  IN  CHOOSE x \in S : \A y \in S : x <= y

maxs(src_runs, vs, key) ==
  Max({src_runs.transforms[vs[i]][key] : i \in 1..Len(vs)})

\* Bar drawing the raw value of the run (a division by 1.0) instead of its ratio.
Bar_Raw(label, key, value, divisor) ==
  [label |-> label, key |-> key, value |-> value, max |-> 10]

Bar(label, key, value, divisor) ==
  [label |-> label, key |-> key, value |-> value, max |-> divisor]

\* The bars of lines 198-236: label, the key of the run, the key of maxs.
\* The loop of lines 238-247 over syscalls adds none.
BarPlan ==
  << <<"wall clock time", "wall_clock_time", "wall_clock_time">>,
     <<"user time",       "user_time",       "wall_clock_time">>,
     <<"system time",     "system_time",     "wall_clock_time">>,
     <<"max rss",         "max_rss",         "max_rss">> >>

\* BuildBars with a division that yields a value for a zero divisor instead of raising.
RECURSIVE BuildBars_NoRaise(_, _, _, _, _)
BuildBars_NoRaise(src_runs, vs, run, n, done) ==
  IF n > Len(BarPlan) THEN [ok |-> TRUE, error |-> "", bars |-> done]
  ELSE BuildBars_NoRaise(src_runs, vs, run, n + 1,
                         Append(done, Bar(BarPlan[n][1], BarPlan[n][2],
                                          run[BarPlan[n][2]],
                                          maxs(src_runs, vs, BarPlan[n][3]))))

RECURSIVE BuildBars(_, _, _, _, _)
BuildBars(src_runs, vs, run, n, done) ==
  IF n > Len(BarPlan) THEN [ok |-> TRUE, error |-> "", bars |-> done]
  ELSE LET divisor == maxs(src_runs, vs, BarPlan[n][3])
       IN  IF divisor = 0
           THEN [ok |-> FALSE, error |-> "ZeroDivisionError", bars |-> done]
           ELSE BuildBars(src_runs, vs, run, n + 1,
                          Append(done, Bar(BarPlan[n][1], BarPlan[n][2],
                                           run[BarPlan[n][2]], divisor)))

PlotRound(src_runs, vs, j) ==
  IF ~HasAllKeys(src_runs, vs)
  THEN [ok |-> FALSE, error |-> "KeyError", bars |-> <<>>]
  ELSE BuildBars(src_runs, vs, src_runs.transforms[vs[j]], 1, <<>>)

(***************************************************************************)
(* The state of the script.                                                *)
(*   files    the tuple line 83 iterates over (ids into Files)             *)
(*   idx      the number of files the loop is done with                    *)
(*   pc       loop | scan | plot | bars | done | error                     *)
(*   data     the dict data; order is the insertion order of its keys      *)
(*   started, lineno   the scanner's flag and the lines read of the file   *)
(*   handles  the files that are open                                      *)
(*   out      the names printed as 'bad file name:'                        *)
(*   err      the exception that ended the script, with the file name it   *)
(*            carries in its message, if any                               *)
(*   pi, pj   the sources plotted, and the rounds done for the source      *)
(*   bars     the bars built, each with its source and version             *)
(***************************************************************************)
VARIABLES files, idx, pc, data, order, started, lineno, handles, out, err,
          pi, pj, bars

plot_vars == <<files, idx, pc, data, order, started, lineno, handles, out, err,
               pi, pj, bars>>

(***************************************************************************)
(* The state of packages/transformer/dedup_write_strace.py, a script of    *)
(* its own.                                                                *)
(*   stdin      the lines of sys.stdin, each with its line terminator      *)
(*   consumed   the number of lines the loop of line 16 is done with       *)
(*   stacks     the dict stacks; seen is the insertion order of its keys   *)
(*   curr_call, stack   the call line seen last, the frames since it       *)
(*   printed    what lines 35-38 print, one record per stack               *)
(*   dpc        idle | read | done | error                                 *)
(* Each script leaves the variables of the other alone.                    *)
(***************************************************************************)
VARIABLES stdin, consumed, stacks, seen, curr_call, stack, printed, dpc

dedup_vars == <<stdin, consumed, stacks, seen, curr_call, stack, printed, dpc>>

DedupIdle ==
  /\ stdin = <<>>
  /\ consumed = 0
  /\ stacks = EmptyDict
  /\ seen = <<>>
  /\ curr_call = <<>>
  /\ stack = <<>>
  /\ printed = <<>>
  /\ dpc = "idle"

vars == <<plot_vars, dedup_vars>>

NoError == [kind |-> "", file |-> None]

Init ==
  /\ files \in Directories
  /\ idx = 0
  /\ pc = "loop"
  /\ data = EmptyDict
  /\ order = <<>>
  /\ started = FALSE
  /\ lineno = 0
  /\ handles = {}
  /\ out = <<>>
  /\ err = NoError
  /\ pi = 0
  /\ pj = 0
  /\ bars = <<>>
  /\ DedupIdle

file == Files[files[idx + 1]]

parsed_file == file_patt(file.name)

tform_data == data[parsed_file.src].transforms[parsed_file.version]

AtLoopHead == pc = "loop" /\ idx < Len(files)

\* BadFileName without the continue of line 88: parsed_file.group fails on None.
BadFileName_FallsThrough ==
  /\ AtLoopHead
  /\ ~parsed_file.matched
  /\ out' = Append(out, file.name)
  /\ pc' = "error"
  /\ err' = [kind |-> "AttributeError", file |-> None]
  /\ UNCHANGED dedup_vars
  /\ UNCHANGED <<files, idx, data, order, started, lineno, handles, pi, pj, bars>>

\* Lines 86-88.
BadFileName ==
  /\ AtLoopHead
  /\ ~parsed_file.matched
  /\ out' = Append(out, file.name)
  /\ idx' = idx + 1
  /\ UNCHANGED dedup_vars
  /\ UNCHANGED <<files, pc, data, order, started, lineno, handles, err, pi, pj, bars>>

\* Line 94: file_paths[source_file] raises KeyError for a source it does not hold.
UnknownSource ==
  /\ AtLoopHead
  /\ parsed_file.matched
  /\ parsed_file.src \notin file_paths
  /\ pc' = "error"
  /\ err' = [kind |-> "KeyError", file |-> None]
  /\ UNCHANGED dedup_vars
  /\ UNCHANGED <<files, idx, data, order, started, lineno, handles, out, pi, pj, bars>>

\* Lines 96-97.
SkipVersion ==
  /\ AtLoopHead
  /\ parsed_file.matched
  /\ parsed_file.src \in file_paths
  /\ parsed_file.version \notin cool_versions
  /\ idx' = idx + 1
  /\ UNCHANGED dedup_vars
  /\ UNCHANGED <<files, pc, data, order, started, lineno, handles, out, err, pi, pj, bars>>

\* Lines 99-116.
OpenFile ==
  /\ AtLoopHead
  /\ parsed_file.matched
  /\ parsed_file.src \in file_paths
  /\ parsed_file.version \in cool_versions
  /\ data' = LookupOrCreate(data, parsed_file.src, parsed_file.version,
                            parsed_file.commit)
  /\ order' = IF parsed_file.src \in DOMAIN data THEN order
              ELSE Append(order, parsed_file.src)
  /\ handles' = handles \cup {files[idx + 1]}
  /\ started' = FALSE
  /\ lineno' = 0
  /\ pc' = "scan"
  /\ UNCHANGED dedup_vars
  /\ UNCHANGED <<files, idx, out, err, pi, pj, bars>>

AtLine == pc = "scan" /\ lineno < Len(file.lines)

scan == ScanLine(tform_data, parsed_file.type, started, file.lines[lineno + 1])

\* Lines 117-153, a line that raises nothing.
ReadLine ==
  /\ AtLine
  /\ scan.ok
  /\ data' = [data EXCEPT ![parsed_file.src].transforms[parsed_file.version] = scan.tf]
  /\ started' = scan.started
  /\ lineno' = lineno + 1
  /\ UNCHANGED dedup_vars
  /\ UNCHANGED <<files, idx, pc, order, handles, out, err, pi, pj, bars>>

\* FormatError leaving the file open (an open() without the with statement).
FormatError_Leaks ==
  /\ AtLine
  /\ ~scan.ok
  /\ pc' = "error"
  /\ err' = [kind |-> scan.error, file |-> None]
  /\ UNCHANGED dedup_vars
  /\ UNCHANGED <<files, idx, data, order, started, lineno, handles, out, pi, pj, bars>>

\* FormatError swallowing the exception: the line is skipped and the scan goes on.
FormatError_SkipsLine ==
  /\ AtLine
  /\ ~scan.ok
  /\ lineno' = lineno + 1
  /\ UNCHANGED dedup_vars
  /\ UNCHANGED <<files, idx, pc, data, order, started, handles, out, err, pi, pj, bars>>

\* Lines 133-153, a conversion that raises: the with statement closes the file.
FormatError ==
  /\ AtLine
  /\ ~scan.ok
  /\ handles' = handles \ {files[idx + 1]}
  /\ pc' = "error"
  /\ err' = [kind |-> scan.error, file |-> None]
  /\ UNCHANGED dedup_vars
  /\ UNCHANGED <<files, idx, data, order, started, lineno, out, pi, pj, bars>>

\* NeverStarted without the raise of line 156: the file is closed and the loop goes on.
NeverStarted_GoesOn ==
  /\ pc = "scan" /\ lineno = Len(file.lines)
  /\ ~started
  /\ handles' = handles \ {files[idx + 1]}
  /\ idx' = idx + 1
  /\ pc' = "loop"
  /\ UNCHANGED dedup_vars
  /\ UNCHANGED <<files, data, order, started, lineno, out, err, pi, pj, bars>>

\* Lines 155-156.
NeverStarted ==
  /\ pc = "scan" /\ lineno = Len(file.lines)
  /\ ~started
  /\ handles' = handles \ {files[idx + 1]}
  /\ pc' = "error"
  /\ err' = [kind |-> "Exception", file |-> file.name]
  /\ UNCHANGED dedup_vars
  /\ UNCHANGED <<files, idx, data, order, started, lineno, out, pi, pj, bars>>

\* The end of the with block, and line 158.
CloseFile ==
  /\ pc = "scan" /\ lineno = Len(file.lines)
  /\ started
  /\ handles' = handles \ {files[idx + 1]}
  /\ data' = [data EXCEPT ![parsed_file.src].transforms[parsed_file.version] = tform_data]
  /\ idx' = idx + 1
  /\ pc' = "loop"
  /\ UNCHANGED dedup_vars
  /\ UNCHANGED <<files, order, started, lineno, out, err, pi, pj, bars>>

\* The end of the loop of line 83.
EndIngest ==
  /\ pc = "loop" /\ idx = Len(files)
  /\ pc' = "plot"
  /\ UNCHANGED dedup_vars
  /\ UNCHANGED <<files, idx, data, order, started, lineno, handles, out, err, pi, pj, bars>>

src_runs == data[order[pi + 1]]

\* Lines 164-186.  plt.xticks is given len(versions) ticks and the
\* len(cool_versions) labels; what matplotlib does when the two differ is
\* left open (XticksMismatch).
PlotSource ==
  /\ pc = "plot" /\ pi < Len(order)
  /\ pc' = "bars"
  /\ pj' = 0
  /\ UNCHANGED dedup_vars
  /\ UNCHANGED <<files, idx, data, order, started, lineno, handles, out, err, pi, bars>>

XticksMismatch ==
  /\ pc = "plot" /\ pi < Len(order)
  /\ Len(versions(src_runs)) # Cardinality(cool_versions)
  /\ pc' = "error"
  /\ err' = [kind |-> "ValueError", file |-> None]
  /\ UNCHANGED dedup_vars
  /\ UNCHANGED <<files, idx, data, order, started, lineno, handles, out, pi, pj, bars>>

AtRound == pc = "bars" /\ pj < Len(versions(src_runs))

round == PlotRound(src_runs, versions(src_runs), pj + 1)

Drawn(bs) ==
  [n \in 1..Len(bs) |->
     [src |-> order[pi + 1], version |-> versions(src_runs)[pj + 1],
      label |-> bs[n].label, key |-> bs[n].key,
      value |-> bs[n].value, max |-> bs[n].max]]

\* Lines 188-250, a round that raises nothing.
PlotVersion ==
  /\ AtRound
  /\ round.ok
  /\ bars' = bars \o Drawn(round.bars)
  /\ pj' = pj + 1
  /\ UNCHANGED dedup_vars
  /\ UNCHANGED <<files, idx, pc, data, order, started, lineno, handles, out, err, pi>>

\* Lines 189-241, a round that raises KeyError or ZeroDivisionError.
PlotRaises ==
  /\ AtRound
  /\ ~round.ok
  /\ bars' = bars \o Drawn(round.bars)
  /\ pc' = "error"
  /\ err' = [kind |-> round.error, file |-> None]
  /\ UNCHANGED dedup_vars
  /\ UNCHANGED <<files, idx, data, order, started, lineno, handles, out, pi, pj>>

\* The end of the loop of line 188.
NextSource ==
  /\ pc = "bars" /\ pj = Len(versions(src_runs))
  /\ pi' = pi + 1
  /\ pc' = "plot"
  /\ UNCHANGED dedup_vars
  /\ UNCHANGED <<files, idx, data, order, started, lineno, handles, out, err, pj, bars>>

\* Lines 252-253.
SaveFigure ==
  /\ pc = "plot" /\ pi = Len(order)
  /\ pc' = "done"
  /\ UNCHANGED dedup_vars
  /\ UNCHANGED <<files, idx, data, order, started, lineno, handles, out, err, pi, pj, bars>>

Next ==
  \/ BadFileName
  \/ UnknownSource
  \/ SkipVersion
  \/ OpenFile
  \/ ReadLine
  \/ FormatError
  \/ NeverStarted
  \/ CloseFile
  \/ EndIngest
  \/ PlotSource
  \/ XticksMismatch
  \/ PlotVersion
  \/ PlotRaises
  \/ NextSource
  \/ SaveFigure

Spec == Init /\ [][Next]_vars

(***************************************************************************)
(* The loop body of lines 84-158 as a function of the dataset and one      *)
(* file, and the whole loop as a function of the tuple it iterates over.   *)
(* They are built from the operators the actions use, and give the         *)
(* dataset a pass over another order of the same files would leave.        *)
(***************************************************************************)
RECURSIVE ScanFrom(_, _, _, _, _)
ScanFrom(tf, file_type, isStarted, lines, k) ==
  IF k > Len(lines) THEN Scanned(tf, isStarted)
  ELSE LET r == ScanLine(tf, file_type, isStarted, lines[k])
       IN  IF ~r.ok THEN r
           ELSE ScanFrom(r.tf, file_type, r.started, lines, k + 1)

Body(d, id) ==
  LET p == file_patt(Files[id].name)
  IN  IF ~p.matched THEN [ok |-> TRUE, data |-> d]
      ELSE IF p.src \notin file_paths THEN [ok |-> FALSE, data |-> d]
      ELSE IF p.version \notin cool_versions THEN [ok |-> TRUE, data |-> d]
      ELSE LET d1 == LookupOrCreate(d, p.src, p.version, p.commit)
               r  == ScanFrom(d1[p.src].transforms[p.version], p.type, FALSE,
                              Files[id].lines, 1)
           IN  [ok   |-> r.ok /\ r.started,
                data |-> [d1 EXCEPT ![p.src].transforms[p.version] = r.tf]]

RECURSIVE Pass(_, _, _)
Pass(d, seq, k) ==
  IF k > Len(seq) THEN [ok |-> TRUE, data |-> d]
  ELSE LET b == Body(d, seq[k])
       IN  IF ~b.ok THEN b ELSE Pass(b.data, seq, k + 1)

(***************************************************************************)
(* What the claims speak of.                                               *)
(***************************************************************************)
\* The loop is past its last file: the ingestion pass has completed.
IngestDone == idx = Len(files) /\ pc \in {"loop", "plot", "bars", "done", "error"}

\* The loop is inside the body of file idx + 1 or at its head.
InBody == idx < Len(files) /\ pc \in {"loop", "scan"}

\* The file is one the loop opens (lines 84-115).
Opened(id) ==
  LET p == file_patt(Files[id].name)
  IN  p.matched /\ p.src \in file_paths /\ p.version \in cool_versions

KeyOf(id) ==
  LET p == file_patt(Files[id].name) IN <<p.src, p.version>>

HasMarker(id) ==
  \E k \in 1..Len(Files[id].lines) :
    start_patt(file_patt(Files[id].name).type, Files[id].lines[k])

\* The metric fields file id writes when it is scanned alone, with their
\* final values; Failed when the scan of the file raises.
Alone(id) ==
  ScanFrom(EmptyDict, file_patt(Files[id].name).type, FALSE, Files[id].lines, 1)

Fields(id) == Alone(id).tf

RunOf(key) == data[key[1]].transforms[key[2]]

(***************************************************************************)
(* C1.  When an opened log file of either dialect ends with no line that   *)
(* matches its start marker, the pass halts there: the step taken at the   *)
(* end of that file ends the script with the loop still at that file, the  *)
(* dataset as it was and no file open, and nothing changes afterwards (no  *)
(* later file is opened, the dataset gets no mutation from a later file).  *)
(***************************************************************************)
AtEndWithoutMarker ==
  /\ pc = "scan"
  /\ lineno = Len(file.lines)
  /\ ~HasMarker(files[idx + 1])

C1_MissingMarkerHalts ==
  [][ /\ AtEndWithoutMarker =>
           pc' = "error" /\ idx' = idx /\ data' = data /\ handles' = {}
      /\ pc = "error" => UNCHANGED vars ]_vars

\* The pass has halted on a file without marker while a later file had yet to be read.
C1_Witness ==
  /\ pc = "error"
  /\ err.kind = "Exception"
  /\ idx + 1 < Len(files)
  /\ Opened(files[idx + 2])

(***************************************************************************)
(* C5.  A file whose name does not match file_patt is skipped with a       *)
(* diagnostic: the step that handles it prints its name, leaves the        *)
(* dataset and the open files as they were and moves to the next file; no  *)
(* such file is ever open.                                                 *)
(***************************************************************************)
AtBadName == AtLoopHead /\ ~file_patt(file.name).matched

C5_BadNameSkipped ==
  /\ [][ AtBadName =>
           /\ data' = data /\ order' = order /\ handles' = handles
           /\ out' = Append(out, file.name)
           /\ pc' = "loop" /\ idx' = idx + 1 /\ err' = err ]_vars
  /\ [](\A id \in handles : file_patt(Files[id].name).matched)

\* A name was rejected and a later file is being read.
C5_Witness == out # <<>> /\ pc = "scan" /\ lineno >= 1

(***************************************************************************)
(* C6.  After two files of the same (source, variant) whose metric field   *)
(* names are disjoint have been ingested (and no other ingested file       *)
(* writes one of those fields of that key), the one Run of the key holds   *)
(* every field of both files with the value the file gave it.              *)
(***************************************************************************)
Metrics(id) == DOMAIN Fields(id)

SameKeyDisjoint(i, j) ==
  /\ i < j
  /\ Opened(files[i]) /\ Opened(files[j])
  /\ KeyOf(files[i]) = KeyOf(files[j])
  /\ Alone(files[i]).ok /\ Alone(files[j]).ok
  /\ Metrics(files[i]) \cap Metrics(files[j]) = {}

OthersLeaveAlone(i, j) ==
  \A k \in (1..idx) \ {i, j} :
    (Opened(files[k]) /\ KeyOf(files[k]) = KeyOf(files[i]))
      => Metrics(files[k]) \cap (Metrics(files[i]) \cup Metrics(files[j])) = {}

C6_DisjointMerge ==
  \A i, j \in 1..idx :
    (SameKeyDisjoint(i, j) /\ OthersLeaveAlone(i, j)) =>
      /\ KeyOf(files[i])[1] \in DOMAIN data
      /\ KeyOf(files[i])[2] \in DOMAIN data[KeyOf(files[i])[1]].transforms
      /\ \A id \in {files[i], files[j]} : \A f \in Metrics(id) :
           /\ f \in DOMAIN RunOf(KeyOf(id))
           /\ RunOf(KeyOf(id))[f] = Fields(id)[f]

\* Two ingested files of one key, each with a metric the other lacks.
C6_Witness ==
  \E i, j \in 1..idx :
    /\ SameKeyDisjoint(i, j)
    /\ Metrics(files[i]) # {} /\ Metrics(files[j]) # {}

(***************************************************************************)
(* C2.  When a usrtime file holds the start marker but no elapsed-time     *)
(* line (and nothing that fails to convert), no step taken for that file   *)
(* halts the pass or changes the dataset: no Run is created or changed     *)
(* because of it, and the loop goes on to the files after it.              *)
(***************************************************************************)
Incomplete(id) ==
  /\ Opened(id)
  /\ file_patt(Files[id].name).type = L_usrtime
  /\ HasMarker(id)
  /\ Alone(id).ok
  /\ "wall_clock_time" \notin Metrics(id)

C2_IncompleteExcluded ==
  [][ (InBody /\ Incomplete(files[idx + 1])) =>
        /\ pc' # "error"
        /\ data' = data ]_vars

(***************************************************************************)
(* C3.  When the ingestion pass has completed and no two files gave        *)
(* different values to the same metric field of the same (source,          *)
(* variant), every order line 83 can produce for the same files completes  *)
(* too and leaves the same dataset: the same runs per source, with the     *)
(* same revision and the same metric values.                               *)
(***************************************************************************)
Orders ==
  {perm \in [1..Len(files) -> {files[i] : i \in 1..Len(files)}] :
     /\ \A i, j \in 1..Len(files) : i # j => perm[i] # perm[j]
     /\ GlobOrder(perm)}

SameKey(i, j) ==
  /\ Opened(files[i]) /\ Opened(files[j])
  /\ KeyOf(files[i]) = KeyOf(files[j])

NoFieldConflict ==
  \A i, j \in 1..Len(files) :
    SameKey(i, j) =>
      \A f \in Metrics(files[i]) \cap Metrics(files[j]) :
        Fields(files[i])[f] = Fields(files[j])[f]

NoRevisionConflict ==
  \A i, j \in 1..Len(files) :
    SameKey(i, j) =>
      file_patt(Files[files[i]].name).commit = file_patt(Files[files[j]].name).commit

C3_AnyOrderSameDataset ==
  (idx = Len(files) /\ NoFieldConflict) =>
    \A perm \in Orders :
      /\ Pass(EmptyDict, perm, 1).ok
      /\ Pass(EmptyDict, perm, 1).data = data

(***************************************************************************)
(* C3, amended.  Under the same condition every order leaves the same runs *)
(* per source with the same metric values; the revision of a Run is that   *)
(* of the file of its key that was processed first, so the datasets are    *)
(* wholly the same when, in addition, no two files of a key carry          *)
(* different revisions.                                                    *)
(***************************************************************************)
WithoutCommit(d) ==
  [s \in DOMAIN d |->
     [v \in DOMAIN d[s].transforms |->
        [f \in DOMAIN d[s].transforms[v] \ {"commit"} |-> d[s].transforms[v][f]]]]

C3_SameUpToRevision ==
  (idx = Len(files) /\ NoFieldConflict) =>
    \A perm \in Orders :
      LET pass == Pass(EmptyDict, perm, 1)
      IN  /\ pass.ok
          /\ WithoutCommit(pass.data) = WithoutCommit(data)
          /\ NoRevisionConflict => pass.data = data

\* A completed pass over two files of one key, both with metrics, that
\* could have been read in the other order.
C3_Witness ==
  /\ idx = Len(files)
  /\ NoFieldConflict
  /\ \E perm \in Orders : perm # files
  /\ \E i, j \in 1..Len(files) :
       /\ i # j /\ SameKey(i, j)
       /\ Metrics(files[i]) # {} /\ Metrics(files[j]) # {}

(***************************************************************************)
(* C4.  A file whose variant is not in cool_versions is silently skipped:  *)
(* the step that handles it raises nothing, leaves the dataset and the     *)
(* open files as they were and moves to the next file; and every variant   *)
(* key of every source's runs is in cool_versions in every state.          *)
(***************************************************************************)
AtOtherVariant ==
  /\ AtLoopHead
  /\ file_patt(file.name).matched
  /\ file_patt(file.name).version \notin cool_versions

C4_OtherVariantSkipped ==
  /\ [][ AtOtherVariant =>
           /\ pc' = "loop" /\ idx' = idx + 1 /\ err' = NoError
           /\ data' = data /\ order' = order /\ handles' = handles ]_vars
  /\ [](\A s \in DOMAIN data : DOMAIN data[s].transforms \subseteq cool_versions)

(***************************************************************************)
(* C7.  When a round of the comparison is run for a source in which every  *)
(* metric of the list is in the Run of some allow-listed variant and one   *)
(* of them is absent from the Run of another, the comparison does not      *)
(* abort on the absent metric: its maximum is taken over the runs that     *)
(* have it.                                                                *)
(***************************************************************************)
AbsentSomewhere(runs) ==
  /\ \A n \in 1..Len(MetricKeys) : \E w \in DOMAIN runs.transforms :
       MetricKeys[n] \in DOMAIN runs.transforms[w]
  /\ \E n \in 1..Len(MetricKeys) : \E v \in DOMAIN runs.transforms :
       MetricKeys[n] \notin DOMAIN runs.transforms[v]

C7_AbsentMetricLeftOut ==
  [][ (AtRound /\ AbsentSomewhere(src_runs)) =>
        ~(pc' = "error" /\ err'.kind = "KeyError") ]_vars

(***************************************************************************)
(* The bars and the dataset they were drawn from.                          *)
(***************************************************************************)
ValuesOf(src, key) ==
  {data[src].transforms[v][key] : v \in DOMAIN data[src].transforms}

\* m is the greatest value of metric key over the runs of src.
IsMaxOf(m, src, key) ==
  /\ \A v \in DOMAIN data[src].transforms : key \in DOMAIN data[src].transforms[v]
  /\ m \in ValuesOf(src, key)
  /\ \A x \in ValuesOf(src, key) : x <= m

\* The sources whose comparison has run to its end.
Compared == {order[k] : k \in 1..pi}

BarsOf(src, key) ==
  {n \in 1..Len(bars) : bars[n].src = src /\ bars[n].key = key}

RecognizedMetrics == {MetricKeys[n] : n \in 1..Len(MetricKeys)}

DivisorOf(key) ==
  IF key \in {"user_time", "system_time"} THEN "wall_clock_time" ELSE key

ZeroDivisor ==
  \E key \in {"wall_clock_time", "max_rss"} : IsMaxOf(0, order[pi + 1], key)

IsHMS(value) ==
  /\ Count(value, ":") = 2
  /\ \A n \in 1..3 : float(Split(value, ":")[n]).ok

SecondsOfHMS(value) ==
  3600 * float(Split(value, ":")[1]).val + 60 * float(Split(value, ":")[2]).val
    + float(Split(value, ":")[3]).val

ElapsedHMS(line) ==
  /\ usrtime_patt(line).matched
  /\ usrtime_patt(line).stat_name = L_Elapsed
  /\ IsHMS(usrtime_patt(line).value)

C10_HMSConverted ==
  /\ (pc = "error" /\ idx < Len(files) /\ err.kind = "ValueError"
        /\ lineno < Len(file.lines))
       => ~ElapsedHMS(file.lines[lineno + 1])
  /\ (pc = "scan" /\ lineno >= 1 /\ parsed_file.type = L_usrtime
        /\ ElapsedHMS(file.lines[lineno])
        /\ \E k \in 1..(lineno - 1) : start_patt(L_usrtime, file.lines[k]))
       => /\ "wall_clock_time" \in DOMAIN tform_data
          /\ tform_data["wall_clock_time"]
               = SecondsOfHMS(usrtime_patt(file.lines[lineno]).value)

(***************************************************************************)
(* C11.  An elapsed-time value with exactly one colon, mm:ss, is converted *)
(* with the hours taken as 0: timeToSeconds returns mm*60 + ss, "1:30.5"   *)
(* gives 90.5, and an elapsed-time line mm:ss read after the start marker  *)
(* is not rejected and stores mm*60 + ss as wall_clock_time.               *)
(***************************************************************************)
IsMS(value) ==
  /\ Count(value, ":") = 1
  /\ \A n \in 1..2 : float(Split(value, ":")[n]).ok

SecondsOfMS(value) ==
  60 * float(Split(value, ":")[1]).val + float(Split(value, ":")[2]).val

ElapsedMS(line) ==
  /\ usrtime_patt(line).matched
  /\ usrtime_patt(line).stat_name = L_Elapsed
  /\ IsMS(usrtime_patt(line).value)

AfterMarker(n) == \E k \in 1..(n - 1) : start_patt(parsed_file.type, file.lines[k])

C11_MSConverted ==
  /\ timeToSeconds(X_1_30_5) = Returned(905)
  /\ (pc = "error" /\ idx < Len(files) /\ err.kind = "ValueError"
        /\ lineno < Len(file.lines))
       => ~ElapsedMS(file.lines[lineno + 1])
  /\ (pc = "scan" /\ lineno >= 1 /\ parsed_file.type = L_usrtime
        /\ ElapsedMS(file.lines[lineno]) /\ AfterMarker(lineno))
       => /\ "wall_clock_time" \in DOMAIN tform_data
          /\ tform_data["wall_clock_time"]
               = SecondsOfMS(usrtime_patt(file.lines[lineno]).value)

\* The line "Elapsed ...: 1:30.5" has just been read after the start marker.
C11_Witness ==
  /\ pc = "scan" /\ lineno >= 1 /\ parsed_file.type = L_usrtime
  /\ ElapsedMS(file.lines[lineno]) /\ AfterMarker(lineno)
  /\ usrtime_patt(file.lines[lineno]).value = X_1_30_5
  /\ tform_data["wall_clock_time"] = 905

(***************************************************************************)
(* The comparison of the source being plotted, run again on a dataset in   *)
(* which every run's value of the metrics keys is multiplied by c.  Two    *)
(* bars show the same ratio when value/max is the same fraction.           *)
(***************************************************************************)
ScaleFactors == {2, 3}

Scaled(runs, keys, c) ==
  [runs EXCEPT !.transforms =
     [v \in DOMAIN @ |->
        [f \in DOMAIN @[v] |-> IF f \in keys THEN c * @[v][f] ELSE @[v][f]]]]

Rescaled(keys, c, j) == PlotRound(Scaled(src_runs, keys, c), versions(src_runs), j)

DrawnFor(j, key) ==
  {n \in 1..Len(bars) :
     /\ bars[n].src = order[pi + 1]
     /\ bars[n].version = versions(src_runs)[j]
     /\ bars[n].key = key}

SameRatio(a, b) == a.value * b.max = b.value * a.max

RatioTimes(c, a, b) == c * a.value * b.max = b.value * a.max

Identity(v, r, s, t) ==
  [matched |-> TRUE, version |-> v, commit |-> r, src |-> s, type |-> t]

Rebuilt(p) == FileNameOf(p.version, p.commit, p.src, p.type)

Prefix(name) == SubSeq(name, 1, Find(name, "_") - 1)

HasRevision(P) ==
  /\ Len(P) >= 9
  /\ P[Len(P) - 7] = "-"
  /\ \A i \in (Len(P) - 6)..Len(P) : P[i] \in LowerAlnum

N_long == FileNameOf(V_oldtform \o <<"-">> \o T_abc12345, None, K_Shell, L_usrtime)
N_dash == FileNameOf(<<"-">> \o T_abc1234, None, K_Shell, L_strace)
N_twice == FileNameOf(V_oldtform \o <<"-">> \o T_abc1234, T_abc1234, K_Shell, L_strace)
N_upper == FileNameOf(V_oldtform \o <<"-","A">> \o T_abc1234, None, K_Shell, L_usrtime)
N_under == FileNameOf(V_oldtform, None, <<"a","_","b">> \o L_DotBim, L_usrtime)
N_noBim == FileNameOf(V_oldtform, None, V_selectfrom, L_usrtime)
N_noVariant == FileNameOf(<<>>, None, K_Shell, L_usrtime)

ResolverNames ==
  {N_data, T_WeirdFile, N_long, N_dash, N_twice, N_upper, N_under, N_noBim,
   N_noVariant}

ResolvedAsNamed(name) ==
  LET p == file_patt(name)
      P == Prefix(name)
  IN  /\ Find(name, "_") = 0 => ~p.matched
      /\ p.matched =>
           /\ Rebuilt(p) = name
           /\ file_patt(Rebuilt(p)) = p
           /\ p.type \in {L_usrtime, L_strace}
           /\ EndsWith(name, <<".">> \o p.type)
           /\ EndsWith(p.src, L_DotBim)
           /\ IF HasRevision(P)
              THEN /\ p.commit = SubSeq(P, Len(P) - 6, Len(P))
                   /\ p.version = SubSeq(P, 1, Len(P) - 8)
              ELSE p.commit = None /\ p.version = P

ResolverNamesResolved ==
  /\ file_patt(N_data) = Identity(V_oldtform, T_abc1234, T_DataBim, L_usrtime)
  /\ ~file_patt(T_WeirdFile).matched
  /\ \A name \in ResolverNames : ResolvedAsNamed(name)

C13_ResolverRoundTrip ==
  /\ ResolverNamesResolved
  /\ idx < Len(files) => ResolvedAsNamed(file.name)
  /\ pc = "scan" =>
       /\ parsed_file.matched
       /\ parsed_file.src \in DOMAIN data
       /\ parsed_file.version \in DOMAIN data[parsed_file.src].transforms
       /\ tform_data["version"] = parsed_file.version
  /\ \A n \in 1..Len(out) : ~file_patt(out[n]).matched

\* "weird.file.usrtime" was rejected and a file with a revision is being read.
C13_Witness ==
  /\ out = <<T_WeirdFile>>
  /\ pc = "scan"
  /\ parsed_file.commit = T_abc1234
  /\ tform_data["commit"] = T_abc1234

(***************************************************************************)
(* C14.  At most one log file is open at any moment: the file being        *)
(* scanned and no other; a file is opened only when none is open; and the  *)
(* step that leaves the scan of a file, whether it goes on to the next     *)
(* file or aborts the pass (no start marker, a conversion error), releases *)
(* its handle, so that none is open once the pass has ended or aborted.    *)
(***************************************************************************)
C14_HandleScoped ==
  /\ [](/\ Cardinality(handles) <= 1
        /\ pc = "scan" => handles = {files[idx + 1]}
        /\ pc # "scan" => handles = {})
  /\ [][ /\ (handles' # handles /\ handles' # {}) => handles = {}
         /\ (pc = "scan" /\ (pc' # "scan" \/ idx' # idx)) => handles' = {} ]_vars

\* The pass aborted on a conversion error in its second opened file.
C14_Witness ==
  /\ pc = "error"
  /\ err.kind = "ValueError"
  /\ idx >= 1 /\ idx < Len(files)
  /\ Opened(files[1])
  /\ handles = {}

(***************************************************************************)
(* C15.  While a file is scanned, the scanner is Extracting (started)      *)
(* exactly when a line matching the start marker of the dialect is among   *)
(* the lines read: it starts in Seeking, moves to Extracting on the first  *)
(* marker line and never returns.  Reading the first marker line or a line *)
(* before it changes nothing in the dataset and raises nothing, even when  *)
(* the line has the shape of a recognized statistic.                       *)
(***************************************************************************)
MarkerRead == \E k \in 1..lineno : start_patt(parsed_file.type, file.lines[k])

C15_SeekThenExtract ==
  /\ [](pc = "scan" => (started <=> MarkerRead))
  /\ [][ /\ (AtLine /\ ~MarkerRead) => (data' = data /\ pc' = "scan")
         /\ (pc = "scan" /\ pc' = "scan" /\ idx' = idx /\ started) => started'
         /\ (pc = "loop" /\ pc' = "scan") => ~started' ]_vars

\* A statistic line came before the marker, the marker has just been read,
\* and the Run holds no metric.
C15_Witness ==
  /\ pc = "scan" /\ started /\ lineno >= 2
  /\ parsed_file.type = L_usrtime
  /\ start_patt(L_usrtime, file.lines[lineno])
  /\ usrtime_patt(file.lines[lineno - 1]).matched
  /\ DOMAIN tform_data = {"version", "commit"}

(***************************************************************************)
(* C16.  When the ingestion pass has halted on a file, for want of a start *)
(* marker or on a conversion error of a matched statistic, the exception   *)
(* that ended it carries the name of that file.                            *)
(***************************************************************************)
C16_HaltCarriesFileName ==
  (pc = "error" /\ idx < Len(files) /\ err.kind \in {"Exception", "ValueError"})
    => err.file = file.name

(***************************************************************************)
(* C17.  When the line to be read after the start marker of a usrtime file *)
(* is a matched statistic whose value cannot be converted (a user time, a  *)
(* system time or a memory size that is no number, an elapsed time whose   *)
(* number of colons is neither 1 nor 2), the step that reads it ends the   *)
(* script with ValueError at that line, the dataset as it was (the field   *)
(* of the line not written); and nothing changes afterwards: no later line *)
(* and no later file is processed.                                         *)
(***************************************************************************)
Unconvertible(line) ==
  /\ usrtime_patt(line).matched
  /\ IF usrtime_patt(line).stat_name = L_Elapsed
     THEN Count(usrtime_patt(line).value, ":") \notin {1, 2}
     ELSE ~float(usrtime_patt(line).value).ok

AtUnconvertible ==
  /\ AtLine /\ started
  /\ parsed_file.type = L_usrtime
  /\ Unconvertible(file.lines[lineno + 1])

C17_FormatErrorHalts ==
  [][ /\ AtUnconvertible =>
           /\ pc' = "error" /\ err'.kind = "ValueError"
           /\ data' = data /\ idx' = idx /\ lineno' = lineno
      /\ (pc = "error" /\ idx < Len(files)) => UNCHANGED vars ]_vars

\* The pass halted on an elapsed time without colon, with a line and a file yet to read.
C17_Witness ==
  /\ pc = "error" /\ err.kind = "ValueError"
  /\ idx + 1 < Len(files) /\ Opened(files[idx + 2])
  /\ lineno + 1 < Len(file.lines)
  /\ Unconvertible(file.lines[lineno + 1])
  /\ usrtime_patt(file.lines[lineno + 1]).stat_name = L_Elapsed
  /\ "user_time" \in DOMAIN data[parsed_file.src].transforms[parsed_file.version]

(***************************************************************************)
(* C18.  A (source, variant) key enters the dataset only by the step that  *)
(* opens a file of that key, with a Run that records the variant and the   *)
(* revision of that file and nothing else.  No step removes a key, and no  *)
(* step replaces the Run of a key that is there: its variant and revision  *)
(* stay and its fields only grow.  In every state the Run stored under     *)
(* variant v of a source records variant v.                                *)
(***************************************************************************)
C18_RunLifecycle ==
  /\ [](\A s \in DOMAIN data : \A v \in DOMAIN data[s].transforms :
          data[s].transforms[v]["version"] = v)
  /\ [][ /\ \A s \in DOMAIN data :
              /\ s \in DOMAIN data'
              /\ \A v \in DOMAIN data[s].transforms :
                   /\ v \in DOMAIN data'[s].transforms
                   /\ DOMAIN data[s].transforms[v] \subseteq DOMAIN data'[s].transforms[v]
                   /\ data'[s].transforms[v]["version"] = data[s].transforms[v]["version"]
                   /\ data'[s].transforms[v]["commit"] = data[s].transforms[v]["commit"]
         /\ \A s \in DOMAIN data' : \A v \in DOMAIN data'[s].transforms :
              (s \notin DOMAIN data \/ v \notin DOMAIN data[s].transforms) =>
                /\ AtLoopHead /\ pc' = "scan"
                /\ s = parsed_file.src /\ v = parsed_file.version
                /\ data'[s].transforms[v] =
                     [f \in {"version", "commit"} |->
                        IF f = "version" THEN parsed_file.version
                        ELSE parsed_file.commit] ]_vars

\* The second file of a key, of another revision, is being read into the
\* Run the first one created, which keeps its revision and its metrics.
C18_Witness ==
  /\ pc = "scan" /\ idx = 1 /\ lineno >= 2
  /\ Opened(files[1]) /\ KeyOf(files[1]) = KeyOf(files[2])
  /\ file_patt(Files[files[1]].name).commit = T_abc1234
  /\ parsed_file.commit = None
  /\ tform_data["commit"] = T_abc1234
  /\ Metrics(files[1]) # {}
  /\ Metrics(files[1]) \subseteq DOMAIN tform_data

(***************************************************************************)
(* C20.  An occurrence of a metric is a line of an opened usrtime file     *)
(* that comes after the start marker of the file and matches usrtime_patt  *)
(* with the statistic of that metric.  While the script has not halted,    *)
(* each metric field of each Run holds the converted value of the          *)
(* occurrence of its (source, variant) processed last, whether the earlier *)
(* ones were in the same file or in files read before; a metric without a  *)
(* processed occurrence is not in the Run.                                 *)
(***************************************************************************)
StatKey(stat_name) ==
  IF stat_name = L_Elapsed THEN "wall_clock_time"
  ELSE IF stat_name = L_SystemTime THEN "system_time"
  ELSE IF stat_name = L_UserTime THEN "user_time"
  ELSE "max_rss"

Converted(text) ==
  IF usrtime_patt(text).stat_name = L_Elapsed
  THEN timeToSeconds(usrtime_patt(text).value).val
  ELSE float(usrtime_patt(text).value).val

\* For each file and each of its lines: the metric the line is an
\* occurrence of, with its converted value, if it is one.
OccurrenceTable ==
  [id \in FileIds |->
     [n \in 1..Len(Files[id].lines) |->
        IF /\ Opened(id)
           /\ file_patt(Files[id].name).type = L_usrtime
           /\ \E m \in 1..(n - 1) : start_patt(L_usrtime, Files[id].lines[m])
           /\ usrtime_patt(Files[id].lines[n]).matched
        THEN [key |-> StatKey(usrtime_patt(Files[id].lines[n]).stat_name),
              val |-> Converted(Files[id].lines[n])]
        ELSE [key |-> "", val |-> 0]]]

KeyTable == [id \in FileIds |-> IF Opened(id) THEN KeyOf(id) ELSE <<>>]

ValueAt(o) == OccurrenceTable[files[o[1]]][o[2]].val

Processed(k, n) == k <= idx \/ (k = idx + 1 /\ pc = "scan" /\ n <= lineno)

Occs(key, f) ==
  UNION {{<<k, n>> : n \in {m \in 1..Len(Files[files[k]].lines) :
                              /\ Processed(k, m)
                              /\ KeyTable[files[k]] = key
                              /\ OccurrenceTable[files[k]][m].key = f}}
           : k \in 1..Len(files)}

Last(S) ==
  CHOOSE x \in S : \A y \in S : y[1] < x[1] \/ (y[1] = x[1] /\ y[2] <= x[2])

C20_LastWriteWins ==
  pc # "error" =>
    \A s \in DOMAIN data : \A v \in DOMAIN data[s].transforms :
      \A f \in RecognizedMetrics :
        LET S == Occs(<<s, v>>, f)
        IN  IF S = {}
            THEN f \notin DOMAIN data[s].transforms[v]
            ELSE /\ f \in DOMAIN data[s].transforms[v]
                 /\ data[s].transforms[v][f] = ValueAt(Last(S))

\* A metric occurred twice in the first file and once more in the second,
\* each time with a value other than the one before.
C20_Witness ==
  /\ idx = Len(files) /\ pc # "error"
  /\ \E s \in DOMAIN data : \E v \in DOMAIN data[s].transforms :
       \E f \in RecognizedMetrics :
         \E a, b, c \in Occs(<<s, v>>, f) :
           /\ a[1] = b[1] /\ a[2] < b[2] /\ b[1] < c[1]
           /\ ValueAt(a) # ValueAt(b)
           /\ ValueAt(b) # ValueAt(c)
           /\ data[s].transforms[v][f] = ValueAt(c)

(***************************************************************************)
(* packages/transformer/dedup_write_strace.py: the loop over sys.stdin     *)
(* (lines 16-33) and the report (lines 35-38).  A line of sys.stdin holds  *)
(* its terminator, so it is never "" and the test of line 17 never         *)
(* succeeds.  The lines are those of strace -k: a call line, then its      *)
(* frames, each indented by a blank.                                       *)
(***************************************************************************)
D_write == <<"w","r","i","t","e","(","1",")","\n">>
D_mmap == <<"m","m","a","p","(","0",","," ","6","4",")","\n">>
D_mmapBare == <<"m","m","a","p","(","0",")","\n">>
D_frameA == <<" ","a","\n">>
D_frameB == <<" ","b","\n">>
L_mmapParen == <<"m","m","a","p","(">>

DedupLines == {D_write, D_mmap, D_mmapBare, D_frameA, D_frameB}

\* The most lines sys.stdin holds.
MaxLines == 4

\* The output of strace -k starts with a call line.
Inputs ==
  UNION {{in \in [1..n -> DedupLines] : n >= 1 => in[1][1] # " "} : n \in 0..MaxLines}

\* "".join(stack)
RECURSIVE Join(_)
Join(ss) == IF ss = <<>> THEN <<>> ELSE Head(ss) \o Join(Tail(ss))

\* str.strip()
Whitespace == {" ", "\t", "\n"}

RECURSIVE Strip(_)
Strip(s) ==
  IF s = <<>> THEN s
  ELSE IF s[1] \in Whitespace THEN Strip(Tail(s))
  ELSE IF s[Len(s)] \in Whitespace THEN Strip(SubSeq(s, 1, Len(s) - 1))
  ELSE s

\* sorted(stacks.items(), key=count): stable, so equal counts keep the
\* insertion order of the dict.
RECURSIVE SortedByCount(_, _)
SortedByCount(d, keys) ==
  IF keys = <<>> THEN <<>>
  ELSE LET i == CHOOSE i \in 1..Len(keys) :
                  /\ \A j \in 1..Len(keys) : d[keys[i]].count <= d[keys[j]].count
                  /\ \A j \in 1..(i - 1) : d[keys[j]].count # d[keys[i]].count
       IN  <<keys[i]>> \o SortedByCount(d, SubSeq(keys, 1, i - 1)
                                             \o SubSeq(keys, i + 1, Len(keys)))

PlotIdle ==
  /\ files = <<>>
  /\ idx = 0
  /\ pc = "idle"
  /\ data = EmptyDict
  /\ order = <<>>
  /\ started = FALSE
  /\ lineno = 0
  /\ handles = {}
  /\ out = <<>>
  /\ err = NoError
  /\ pi = 0
  /\ pj = 0
  /\ bars = <<>>

\* Lines 12-14.
DedupInit ==
  /\ stdin \in Inputs
  /\ consumed = 0
  /\ stacks = EmptyDict
  /\ seen = <<>>
  /\ curr_call = <<>>
  /\ stack = <<>>
  /\ printed = <<>>
  /\ dpc = "read"
  /\ PlotIdle

line == stdin[consumed + 1]

full_stack == Join(stack)

AtStdinLine == dpc = "read" /\ consumed < Len(stdin) /\ line # <<>>

\* Lines 19-20.
PushFrame ==
  /\ AtStdinLine
  /\ line[1] = " "
  /\ stack' = Append(stack, line)
  /\ consumed' = consumed + 1
  /\ UNCHANGED <<stdin, stacks, seen, curr_call, printed, dpc>>
  /\ UNCHANGED plot_vars

\* Lines 22-23 and 28-33: a stack that is not in stacks.
CountNewStack ==
  /\ AtStdinLine
  /\ line[1] # " "
  /\ full_stack \notin DOMAIN stacks
  /\ stacks' = Put(stacks, full_stack, [count |-> 1, mmap_size |-> <<>>])
  /\ seen' = Append(seen, full_stack)
  /\ stack' = <<>>
  /\ curr_call' = line
  /\ consumed' = consumed + 1
  /\ UNCHANGED <<stdin, printed, dpc>>
  /\ UNCHANGED plot_vars

\* Line 26 has a second part to take: curr_call holds a comma.
HasSize == Len(Split(curr_call, ",")) >= 2

\* Lines 22-27 and 30-33: a stack that is in stacks.
CountKnownStack ==
  /\ AtStdinLine
  /\ line[1] # " "
  /\ full_stack \in DOMAIN stacks
  /\ StartsWith(curr_call, L_mmapParen) => HasSize
  /\ stacks' =
       [stacks EXCEPT ![full_stack] =
          [count     |-> @.count + 1,
           mmap_size |-> IF StartsWith(curr_call, L_mmapParen)
                         THEN Append(@.mmap_size, Strip(Split(curr_call, ",")[2]))
                         ELSE @.mmap_size]]
  /\ stack' = <<>>
  /\ curr_call' = line
  /\ consumed' = consumed + 1
  /\ UNCHANGED <<stdin, seen, printed, dpc>>
  /\ UNCHANGED plot_vars

\* Lines 24-26: the count is raised, then split(',')[1] raises IndexError.
MmapIndexError ==
  /\ AtStdinLine
  /\ line[1] # " "
  /\ full_stack \in DOMAIN stacks
  /\ StartsWith(curr_call, L_mmapParen) /\ ~HasSize
  /\ stacks' = [stacks EXCEPT ![full_stack].count = @ + 1]
  /\ dpc' = "error"
  /\ UNCHANGED <<stdin, consumed, seen, curr_call, stack, printed>>
  /\ UNCHANGED plot_vars

\* Lines 35-38, after the last line of sys.stdin.
PrintReport ==
  /\ dpc = "read" /\ consumed = Len(stdin)
  /\ printed' =
       [n \in 1..Len(seen) |->
          [found      |-> stacks[SortedByCount(stacks, seen)[n]].count,
           mmap_sizes |-> stacks[SortedByCount(stacks, seen)[n]].mmap_size,
           s          |-> SortedByCount(stacks, seen)[n]]]
  /\ dpc' = "done"
  /\ UNCHANGED <<stdin, consumed, stacks, seen, curr_call, stack>>
  /\ UNCHANGED plot_vars

DedupNext ==
  \/ PushFrame
  \/ CountNewStack
  \/ CountKnownStack
  \/ MmapIndexError
  \/ PrintReport

DedupSpec == DedupInit /\ [][DedupNext]_vars

(***************************************************************************)
(* C19.  When the report has been printed, each stack that some call line  *)
(* of the input was followed by (the frames up to the next call line or to *)
(* the end of the input, the last call included) is reported with the      *)
(* number of call lines followed by exactly that stack, and every stack    *)
(* reported is one that some call line was followed by.                    *)
(***************************************************************************)
IsCall(l) == l[1] # " "

RECURSIVE FramesFrom(_)
FramesFrom(i) ==
  IF i > Len(stdin) \/ IsCall(stdin[i]) THEN <<>>
  ELSE stdin[i] \o FramesFrom(i + 1)

Calls == {i \in 1..Len(stdin) : IsCall(stdin[i])}

CallsWith(S) == {i \in Calls : FramesFrom(i + 1) = S}

C19_CountsPerStack ==
  dpc = "done" =>
    /\ \A i \in Calls :
         \E n \in 1..Len(printed) :
           /\ printed[n].s = FramesFrom(i + 1)
           /\ printed[n].found = Cardinality(CallsWith(FramesFrom(i + 1)))
    /\ \A n \in 1..Len(printed) : CallsWith(printed[n].s) # {}

=============================================================================
